---- MODULE Spec2Model ----
(***************************************************************************)
(* HyperLogLog of hyperloglog_vs_set.py: the register array, add(),        *)
(* count() and _rho(), with Python's arithmetic: unbounded integers and    *)
(* IEEE-754 binary64 floats (round to nearest, ties to even).              *)
(*                                                                         *)
(* TLC's integers are 32 bits wide, the program's hash is 128 bits wide    *)
(* and count() reaches 2^96, so an unbounded integer is a little-endian    *)
(* sequence of limbs in base 2^15 without leading zero limbs (<<>> is 0),  *)
(* and a float is a record [m |-> mantissa, e |-> exponent] that stands    *)
(* for m * 2^e, with m of exactly 53 bits (or 0). The arithmetic is        *)
(* written as functions of these values.                                   *)
(***************************************************************************)
EXTENDS Integers, Sequences, FiniteSets

(***************************************************************************)
(* Unbounded non-negative integers (Python int), with the carries of the   *)
(* schoolbook methods.                                                     *)
(***************************************************************************)
Pow2(n) ==
    2 ^ n

Base ==
    Pow2(15)

LimbBits ==
    CHOOSE k \in 1..30 : Pow2(k) = Base

\* The limb sequences.
Limbs ==
    Seq(0..(Base - 1))

Limb(a, i) ==
    IF i >= 1 /\ i <= Len(a) THEN a[i] ELSE 0

\* a without its least significant limb
Rest(a) ==
    IF a = <<>> THEN <<>> ELSE Tail(a)

\* a without its leading zero limbs
BigNorm[a \in Limbs] ==
    IF a = <<>> \/ a[Len(a)] # 0 THEN a ELSE BigNorm[SubSeq(a, 1, Len(a) - 1)]

BigFromInt[n \in Nat] ==
    IF n = 0 THEN <<>> ELSE <<n % Base>> \o BigFromInt[n \div Base]

\* a + b + c for a carry c
BigAddCarry[a \in Limbs, b \in Limbs, c \in 0..1] ==
    IF b = <<>> /\ c = 0 THEN a
    ELSE IF a = <<>> /\ c = 0 THEN b
    ELSE LET s == Limb(a, 1) + Limb(b, 1) + c
         IN  <<s % Base>> \o BigAddCarry[Rest(a), Rest(b), s \div Base]

\* a + b
BigAdd[a \in Limbs, b \in Limbs] ==
    BigAddCarry[a, b, 0]

\* a - b - c for a borrow c and a >= b + c, with leading zero limbs
BigSubBorrow[a \in Limbs, b \in Limbs, c \in 0..1] ==
    IF b = <<>> /\ c = 0 THEN a
    ELSE LET s == a[1] - Limb(b, 1) - c
         IN  <<(s + Base) % Base>> \o BigSubBorrow[Tail(a), Rest(b), IF s < 0 THEN 1 ELSE 0]

\* a - b for a >= b
BigSub[a \in Limbs, b \in Limbs] ==
    BigNorm[BigSubBorrow[a, b, 0]]

\* -1, 0, 1 as a < b, a = b, a > b (both without leading zero limbs): the
\* longer one is the larger, and of two of one length the most significant limb
\* in which they differ decides.
BigCmp[a \in Limbs, b \in Limbs] ==
    IF Len(a) < Len(b) THEN -1
    ELSE IF Len(a) > Len(b) THEN 1
    ELSE IF a = b THEN 0
    ELSE IF \E i \in 1..Len(a) :
               a[i] < b[i] /\ \A j \in (i + 1)..Len(a) : a[j] = b[j]
    THEN -1 ELSE 1

BigLeq[a \in Limbs, b \in Limbs] ==
    BigCmp[a, b] <= 0

\* a * k + c for one limb k > 0 and a carry c
BigMulSmallCarry[a \in Limbs, k \in Nat, c \in Nat] ==
    IF a = <<>> THEN BigFromInt[c]
    ELSE LET p == a[1] * k + c
         IN  <<p % Base>> \o BigMulSmallCarry[Tail(a), k, p \div Base]

\* a * k for one limb k (0 <= k < Base)
BigMulSmall[a \in Limbs, k \in Nat] ==
    IF k = 0 THEN <<>> ELSE BigMulSmallCarry[a, k, 0]

Zeros(n) ==
    [i \in 1..n |-> 0]

\* a * Base^n.
BigShlLimbs[a \in Limbs, n \in Nat] ==
    IF a = <<>> THEN <<>> ELSE Zeros(n) \o a

\* a << n.
BigShl[a \in Limbs, n \in Nat] ==
    BigShlLimbs[BigMulSmall[a, Pow2(n % LimbBits)], n \div LimbBits]

\* a \div p for p = 2^k, k < LimbBits: each limb takes the high bits of its own
\* and the low bits of the next one.
BigShrBits[a \in Limbs, p \in Nat] ==
    IF a = <<>> THEN <<>>
    ELSE <<(a[1] \div p) + (Limb(a, 2) % p) * (Base \div p)>> \o BigShrBits[Tail(a), p]

\* a >> n (the bits shifted out are dropped)
BigShr[a \in Limbs, n \in Nat] ==
    IF n \div LimbBits >= Len(a) THEN <<>>
    ELSE BigNorm[BigShrBits[SubSeq(a, n \div LimbBits + 1, Len(a)), Pow2(n % LimbBits)]]

\* n.bit_length() for 0 <= n < 2^30
IntBitLength[n \in Nat] ==
    CHOOSE k \in 0..30 : n < Pow2(k) /\ (k = 0 \/ n >= Pow2(k - 1))

\* int.bit_length()
BigBitLength[a \in Limbs] ==
    IF a = <<>> THEN 0
    ELSE LimbBits * (Len(a) - 1) + IntBitLength[a[Len(a)]]

BigIsOdd[a \in Limbs] ==
    a # <<>> /\ a[1] % 2 = 1

\* a % 2^n
BigLowBits[a \in Limbs, n \in Nat] ==
    BigSub[a, BigShl[BigShr[a, n], n]]

\* a * b, schoolbook: the sum over the limbs b[j] of a * b[j] * Base^(j-1).
BigMulFrom[a \in Limbs, b \in Limbs, j \in Nat] ==
    IF j > Len(b) THEN <<>>
    ELSE BigAdd[BigShlLimbs[BigMulSmall[a, b[j]], j - 1], BigMulFrom[a, b, j + 1]]

BigMul[a \in Limbs, b \in Limbs] ==
    BigMulFrom[a, b, 1]

\* The quotient digit of r by d, for 0 <= r < d * Base: the largest q with
\* d * q <= r, searched downwards from q (an upper estimate of it).
QuotDigit[r \in Limbs, d \in Limbs, q \in Int] ==
    IF BigLeq[BigMulSmall[d, q], r] THEN q ELSE QuotDigit[r, d, q - 1]

\* The upper estimate: the two top limbs of r by the top limb of d. It is at
\* most 2 above the digit when the top limb of d is at least Base / 2.
QuotEstimate[r \in Limbs, d \in Limbs] ==
    LET n == Len(d)
        e == (Limb(r, n + 1) * Base + Limb(r, n)) \div d[n]
    IN  IF e > Base - 1 THEN Base - 1 ELSE e

\* One step of long division, for 0 <= r < d * Base: <<r \div d, r % d>>.
DivStep[r \in Limbs, d \in Limbs] ==
    LET q == QuotDigit[r, d, QuotEstimate[r, d]]
    IN  <<q, BigSub[r, BigMulSmall[d, q]]>>

Reverse[a \in Seq(Int)] ==
    [i \in 1..Len(a) |-> a[Len(a) + 1 - i]]

\* w & -w: the lowest set bit of w, as a number (0 for w = 0). In two's
\* complement the zero limbs below the first non-zero limb stay zero, that limb
\* keeps its lowest set bit, and every bit above it is cleared.
IntAndNeg[n \in Nat] ==
    IF n = 0 THEN 0
    ELSE Pow2(CHOOSE k \in 0..29 : n % Pow2(k + 1) = Pow2(k))

BigAndNeg[a \in Limbs] ==
    IF \A i \in 1..Len(a) : a[i] = 0 THEN <<>>
    ELSE LET i == CHOOSE j \in 1..Len(a) : a[j] # 0 /\ \A k \in 1..(j - 1) : a[k] = 0
         IN  Zeros(i - 1) \o <<IntAndNeg[a[i]]>>

(***************************************************************************)
(* IEEE-754 binary64 (Python float), non-negative values. Every result is  *)
(* the exact result rounded to nearest, ties to even. The exponents of the *)
(* program stay between -160 and 110, far from overflow and underflow.     *)
(***************************************************************************)
MantBits ==
    52 + 1

Floats ==
    [m : Limbs, e : Int]

FloatZero ==
    [m |-> <<>>, e |-> 0]

\* The float nearest to n * 2^e, for an unbounded integer n >= 0.
Round[n \in Limbs, e \in Int] ==
    LET len == BigBitLength[n]
    IN  IF len = 0 THEN FloatZero
        ELSE IF len <= MantBits
        THEN [m |-> BigShl[n, MantBits - len], e |-> e - (MantBits - len)]
        ELSE LET sh   == len - MantBits
                 q    == BigShr[n, sh]
                 rest == BigLowBits[n, sh]
                 half == BigShl[<<1>>, sh - 1]
                 c    == BigCmp[rest, half]
                 q2   == IF c > 0 \/ (c = 0 /\ BigIsOdd[q])
                         THEN BigAdd[q, <<1>>] ELSE q
             IN  IF BigBitLength[q2] > MantBits
                 THEN [m |-> BigShr[q2, 1], e |-> e + sh + 1]
                 ELSE [m |-> q2, e |-> e + sh]

\* float(n) for a small int n >= 0.
FloatFromInt[n \in Nat] ==
    Round[BigFromInt[n], 0]

MinOf(x, y) ==
    IF x <= y THEN x ELSE y

\* x + y
FloatAdd[x \in Floats, y \in Floats] ==
    IF x.m = <<>> THEN y
    ELSE IF y.m = <<>> THEN x
    ELSE LET e0 == MinOf(x.e, y.e)
         IN  Round[BigAdd[BigShl[x.m, x.e - e0], BigShl[y.m, y.e - e0]], e0]

\* x * y
FloatMul[x \in Floats, y \in Floats] ==
    IF x.m = <<>> \/ y.m = <<>> THEN FloatZero
    ELSE Round[BigMul[x.m, y.m], x.e + y.e]

\* What x / 0 stands for: Python raises ZeroDivisionError.
ZeroDivision ==
    [m |-> <<>>, e |-> 1]

\* x / y: long division of the mantissas, both shifted to fill 4 limbs, to one
\* digit 0 or 1 and 4 limbs more (60 bits and more), with one more bit that says
\* whether the division left a remainder, then rounded.
FloatDiv[x \in Floats, y \in Floats] ==
    IF y.m = <<>> THEN ZeroDivision
    ELSE IF x.m = <<>> THEN FloatZero
    ELSE LET k  == 4 * LimbBits
             d  == BigShl[y.m, k - MantBits]
             s0 == DivStep[BigShl[x.m, k - MantBits], d]
             s1 == DivStep[BigShlLimbs[s0[2], 1], d]
             s2 == DivStep[BigShlLimbs[s1[2], 1], d]
             s3 == DivStep[BigShlLimbs[s2[2], 1], d]
             s4 == DivStep[BigShlLimbs[s3[2], 1], d]
             q  == BigNorm[Reverse[<<s0[1], s1[1], s2[1], s3[1], s4[1]>>]]
         IN  Round[BigAdd[BigShl[q, 1], IF s4[2] = <<>> THEN <<>> ELSE <<1>>],
                   x.e - y.e - k - 1]

\* int(x): the integer part of x, as an unbounded integer.
FloatToInt[x \in Floats] ==
    IF x.e >= 0 THEN BigShl[x.m, x.e] ELSE BigShr[x.m, 0 - x.e]

\* 2 ** -r for an int r >= 0 (the int 1 for r = 0, a float otherwise: the same value).
TwoPowMinus[r \in Nat] ==
    Round[<<1>>, 0 - r]

(***************************************************************************)
(* Bounds of the model.                                                    *)
(***************************************************************************)
\* The precisions tried are -1..MaxB.
MaxB == 2

\* The items fed to add() are 1..NumItems.
NumItems == 5

\* SpecOrder feeds two estimators from 1..NumOrderItems.
NumOrderItems == 3

Precisions ==
    -1..MaxB

Items ==
    1..NumItems

OrderItems ==
    1..NumOrderItems

(***************************************************************************)
(* mmh3.hash_bytes: 16 bytes per item, the same bytes for the same item.   *)
(* The library is not part of the program; the model fixes one function    *)
(* whose values reach the corners of add(): the first four bytes go round  *)
(* three values and the remaining twelve round five, so that items meet in *)
(* one register with different ranks, and every rank from 0 to 96 that a   *)
(* corner needs occurs.                                                    *)
(***************************************************************************)
IdxBytes ==
    << <<0, 0, 0, 0>>,                                \* 0
       <<255, 255, 255, 255>>,                        \* 2^32 - 1
       <<0, 0, 1, 2>> >>                              \* 258

WBytes ==
    << <<255, 255, 255, 255, 255, 255, 255, 255, 255, 255, 255, 255>>,  \* 2^96 - 1
       <<0, 0, 0, 0, 0, 0, 0, 0, 0, 0, 0, 0>>,                          \* 0
       <<128, 0, 0, 0, 0, 0, 0, 0, 0, 0, 0, 0>>,                        \* 2^95
       <<1, 2, 3, 4, 5, 16, 0, 0, 0, 0, 0, 0>>,                         \* odd * 2^52
       <<0, 0, 0, 0, 0, 0, 0, 0, 0, 0, 6, 0>> >>                        \* 3 * 2^9

mmh3_hash_bytes(item) ==
    IdxBytes[((item - 1) % Len(IdxBytes)) + 1] \o WBytes[((item - 1) % Len(WBytes)) + 1]

Bytes ==
    Seq(0..255)

\* int.from_bytes(bytes, "big"): the last byte is the least significant one, so
\* byte j from the end (j = 0 for the last) holds bits 8j..8j+7, and limb i holds
\* bits 15(i-1)..15i-1, which lie in three bytes in a row.
ByteFromEnd(bytes, j) ==
    IF j < Len(bytes) THEN bytes[Len(bytes) - j] ELSE 0

IntFromBytesBig[bytes \in Bytes] ==
    BigNorm[[i \in 1..((8 * Len(bytes)) \div LimbBits + 1) |->
               LET lo == LimbBits * (i - 1)
                   j  == lo \div 8
                   v  == ByteFromEnd(bytes, j) + 256 * ByteFromEnd(bytes, j + 1)
                           + 65536 * ByteFromEnd(bytes, j + 2)
               IN  (v \div Pow2(lo % 8)) % Base]]

\* a % n for an unbounded a and a small n > 0: limb by limb, from the most
\* significant one.
BigModInt[a \in Limbs, n \in Nat] ==
    IF a = <<>> THEN 0
    ELSE (BigModInt[Tail(a), n] * (Base % n) + Head(a)) % n

(***************************************************************************)
(* class HyperLogLog                                                       *)
(***************************************************************************)
VARIABLES
    status,      \* "ok", or the exception __init__ raised
    b,           \* self.b
    m,           \* self.m
    registers,   \* self.registers, indexed 0..m-1
    added,       \* history: the items add() was called with
    call,        \* history: the last call, and whether it repeats an earlier one
    result,      \* what the last call returned
    left,        \* SpecOrder: the first of two estimators of precision b
    right        \* SpecOrder: the second

vars ==
    <<status, b, m, registers, added, call, result, left, right>>

\* A rank taken from the highest set bit instead of the lowest.
_rhoHighest(w) ==
    BigBitLength[w]

\* _rho(w) = (w & -w).bit_length()
_rho(w) ==
    BigBitLength[BigAndNeg[w]]

\* A max that always takes the new value.
maxNew(x, y) ==
    y

\* max(x, y)
max(x, y) ==
    IF y > x THEN y ELSE x

\* hash_value[:4] as an index into the registers
idx(item, mm) ==
    BigModInt[IntFromBytesBig[SubSeq(mmh3_hash_bytes(item), 1, 4)], mm]

\* The whole hash taken for w, the first four bytes not cut off.
wWholeHash(item) ==
    IntFromBytesBig[mmh3_hash_bytes(item)]

\* hash_value[4:] as an int
w(item) ==
    IntFromBytesBig[SubSeq(mmh3_hash_bytes(item), 5, Len(mmh3_hash_bytes(item)))]

\* An add() that stores the rank whatever the register holds.
AddRegistersLastWrite(regs, mm, item) ==
    [regs EXCEPT ![idx(item, mm)] = _rho(w(item))]

\* An add() that adds the rank to the register.
AddRegistersSum(regs, mm, item) ==
    [regs EXCEPT ![idx(item, mm)] = regs[idx(item, mm)] + _rho(w(item))]

\* self.registers after add(item)
AddRegisters(regs, mm, item) ==
    [regs EXCEPT ![idx(item, mm)] = max(regs[idx(item, mm)], _rho(w(item)))]

\* sum(2**-r for r in self.registers[:n]): from 0, in the order of the indices.
RECURSIVE SumTo(_, _)
SumTo(regs, n) ==
    IF n = 0 THEN FloatZero
    ELSE FloatAdd[SumTo(regs, n - 1), TwoPowMinus[regs[n - 1]]]

\* Z = sum(2**-r for r in self.registers)
Z(regs, mm) ==
    SumTo(regs, mm)

\* The float literals 0.7213 and 1.079: the floats nearest to 7213/10000 and 1079/1000.
Lit0_7213 ==
    FloatDiv[FloatFromInt[7213], FloatFromInt[10000]]

Lit1_079 ==
    FloatDiv[FloatFromInt[1079], FloatFromInt[1000]]

\* The constant 0.673 of the 16-register estimator, for every m.
alpha_16(mm) ==
    FloatDiv[FloatFromInt[673], FloatFromInt[1000]]

\* alpha_m = 0.7213 / (1 + 1.079 / self.m)
alpha_m(mm) ==
    FloatDiv[Lit0_7213, FloatAdd[FloatFromInt[1], FloatDiv[Lit1_079, FloatFromInt[mm]]]]

\* An estimate that multiplies by Z.
estimateTimesZ(regs, mm) ==
    FloatMul[FloatMul[alpha_m(mm), FloatFromInt[mm * mm]], Z(regs, mm)]

\* estimate = alpha_m * (self.m**2) / Z
estimate(regs, mm) ==
    FloatDiv[FloatMul[alpha_m(mm), FloatFromInt[mm * mm]], Z(regs, mm)]

None ==
    [kind |-> "None", val |-> <<>>]

\* What count() returns, or the exception it raises.
CountResult(regs, mm) ==
    IF estimate(regs, mm) = ZeroDivision
    THEN [kind |-> "ZeroDivisionError", val |-> <<>>]
    ELSE [kind |-> "int", val |-> FloatToInt[estimate(regs, mm)]]

NoEstimator ==
    [registers |-> <<>>, added |-> {}]

\* HyperLogLog(bb): 1 << bb raises ValueError for a negative bb, and nothing else
\* is checked.
__init__(bb) ==
    /\ b = bb
    /\ IF bb < 0
       THEN /\ status = "ValueError"
            /\ m = 0
            /\ registers = <<>>
            /\ left = NoEstimator
       ELSE /\ status = "ok"
            /\ m = Pow2(bb)
            /\ registers = [i \in 0..(Pow2(bb) - 1) |-> 0]
            /\ left = [registers |-> [i \in 0..(Pow2(bb) - 1) |-> 0], added |-> {}]
    /\ right = left
    /\ added = {}
    /\ call = [op |-> "__init__", item |-> 0, again |-> FALSE]
    /\ result = None

Init ==
    \E bb \in Precisions : __init__(bb)

add(item) ==
    /\ status = "ok"
    /\ registers' = AddRegisters(registers, m, item)
    /\ added' = added \cup {item}
    /\ call' = [op |-> "add", item |-> item, again |-> item \in added]
    /\ result' = None
    /\ UNCHANGED <<status, b, m, left, right>>

\* A count() that also clears the registers.
countAndReset ==
    /\ status = "ok"
    /\ result' = CountResult(registers, m)
    /\ registers' = [i \in DOMAIN registers |-> 0]
    /\ call' = [op |-> "count", item |-> 0, again |-> call.op = "count"]
    /\ UNCHANGED <<status, b, m, added, left, right>>

count ==
    /\ status = "ok"
    /\ result' = CountResult(registers, m)
    /\ call' = [op |-> "count", item |-> 0, again |-> call.op = "count"]
    /\ UNCHANGED <<status, b, m, registers, added, left, right>>

Next ==
    \/ \E item \in Items : add(item)
    \/ count

Spec ==
    Init /\ [][Next]_vars

\* Two estimators of the same precision, fed one add() at a time. `added` is the
\* set of the items an estimator was given, so one state stands for every order
\* (and every number of repeats) in which its items can have come.
AddTo(h, item) ==
    [registers |-> AddRegisters(h.registers, m, item), added |-> h.added \cup {item}]

addLeft(item) ==
    /\ status = "ok"
    /\ left' = AddTo(left, item)
    /\ UNCHANGED <<status, b, m, registers, added, call, result, right>>

addRight(item) ==
    /\ status = "ok"
    /\ right' = AddTo(right, item)
    /\ UNCHANGED <<status, b, m, registers, added, call, result, left>>

NextOrder ==
    \/ \E item \in OrderItems : addLeft(item)
    \/ \E item \in OrderItems : addRight(item)

SpecOrder ==
    Init /\ [][NextOrder]_vars

(***************************************************************************)
(* The properties.                                                         *)
(***************************************************************************)
IsAdd ==
    call'.op = "add"

IsCount ==
    call'.op = "count"

\* C1: along add() calls no register ever goes down: every step leaves each
\* register at least as high as it was, and the registers stay the same m.
C1_RegistersMonotonic ==
    [][/\ DOMAIN registers' = DOMAIN registers
       /\ \A i \in DOMAIN registers : registers'[i] >= registers[i]]_vars

\* The last add() brought a rank below what its register already held.
C1_Witness ==
    /\ call.op = "add"
    /\ registers[idx(call.item, m)] > _rho(w(call.item))
    /\ _rho(w(call.item)) > 0

\* C2: two estimators of one precision that were given the same items, in
\* whatever order, hold the same registers, element by element, and count()
\* returns the same for both.
C2_OrderInvariance ==
    (status = "ok" /\ left.added = right.added) =>
        /\ \A i \in 0..(m - 1) : left.registers[i] = right.registers[i]
        /\ CountResult(left.registers, m) = CountResult(right.registers, m)

\* Both estimators were given two items that meet in one register with
\* different ranks, so that the order of the two decides what is compared.
C2_Witness ==
    /\ status = "ok"
    /\ left.added = right.added
    /\ \E x, y \in left.added :
          /\ idx(x, m) = idx(y, m)
          /\ _rho(w(x)) < _rho(w(y))
          /\ left.registers[idx(x, m)] = _rho(w(y))

\* C3: add() of an item that was added before, whatever came in between,
\* leaves every register as it is, and so the value of count().
C3_DuplicateInvariance ==
    [][(IsAdd /\ call'.item \in added) =>
          /\ registers' = registers
          /\ CountResult(registers', m) = CountResult(registers, m)]_vars

\* The last add() repeated an item, with other items added as well.
C3_Witness ==
    /\ call.op = "add"
    /\ call.again
    /\ added # {call.item}
    /\ registers[idx(call.item, m)] > 0

\* C4: count() leaves b, m and the registers as they are, and a count() that
\* follows a count() returns what that one returned.
C4_CountIsPureRead ==
    [][IsCount =>
          /\ b' = b
          /\ m' = m
          /\ registers' = registers
          /\ (call.op = "count" => result' = result)]_vars

\* count() was called twice in a row on an estimator that holds items.
C4_Witness ==
    /\ call.op = "count"
    /\ call.again
    /\ \E i \in DOMAIN registers : registers[i] > 0

\* C5: count() on an estimator nothing was added to returns 0.
C5_EmptyCountIsZero ==
    (status = "ok" /\ added = {} /\ call.op = "count") =>
        result = [kind |-> "int", val |-> <<>>]

\* C6: construction with b <= 0 fails with InvalidParameter.
C6_OutOfRangeFails ==
    b <= 0 => status = "InvalidParameter"

\* The remaining bits of a hash: all but the first 32.
RankBits(h) ==
    8 * Len(h) - 32

\* Bit p (1 for the least significant) of the remaining bits of the hash h.
HashBit(h, p) ==
    (h[Len(h) - ((p - 1) \div 8)] \div Pow2((p - 1) % 8)) % 2

\* The 1-indexed position of the lowest set bit of the remaining bits, 0 if none.
Rank(h) ==
    IF \A p \in 1..RankBits(h) : HashBit(h, p) = 0 THEN 0
    ELSE CHOOSE p \in 1..RankBits(h) :
            HashBit(h, p) = 1 /\ \A q \in 1..(p - 1) : HashBit(h, q) = 0

\* The first n bytes of h, as a number, modulo k.
RECURSIVE FirstBytesMod(_, _, _)
FirstBytesMod(h, n, k) ==
    IF n = 0 THEN 0 ELSE (FirstBytesMod(h, n - 1, k) * 256 + h[n]) % k

\* C7: add(item) sets the register at (first 32 bits of the hash) mod m, an index
\* in 0..m-1, to the larger of what it held and the rank of the remaining 96 bits
\* (the 1-indexed position of their lowest set bit, 0 if there is none), and
\* leaves every other register, b, m and the number of registers as they are.
C7_UpdateRule ==
    [][IsAdd =>
          LET h == mmh3_hash_bytes(call'.item)
              index == FirstBytesMod(h, 4, m)
          IN  /\ index \in 0..(m - 1)
              /\ registers'[index] =
                    IF Rank(h) > registers[index] THEN Rank(h) ELSE registers[index]
              /\ \A i \in DOMAIN registers : i # index => registers'[i] = registers[i]
              /\ DOMAIN registers' = 0..(m - 1)
              /\ b' = b
              /\ m' = m]_vars

\* The last add() raised a register other than the first to its rank, while
\* another register holds something too.
C7_Witness ==
    /\ call.op = "add"
    /\ \E i, j \in DOMAIN registers :
          /\ i > 0
          /\ i = idx(call.item, m)
          /\ registers[i] = _rho(w(call.item))
          /\ registers[i] > 1
          /\ j # i
          /\ registers[j] > 0

\* The sum over the first n registers of 2^(96 - r): Z * 2^96, exactly.
RECURSIVE ExactZ(_, _)
ExactZ(regs, n) ==
    IF n = 0 THEN <<>>
    ELSE BigAdd[ExactZ(regs, n - 1), BigShl[<<1>>, 96 - regs[n - 1]]]

\* E = alpha_m * m^2 / Z as a fraction of unbounded integers:
\* 7213 * m^3 * 2^96 over (10000 * m + 10790) * (Z * 2^96).
ExactNum(mm) ==
    BigShl[BigFromInt[7213 * mm * mm * mm], 96]

ExactDen(regs, mm) ==
    BigMul[ExactZ(regs, mm), BigFromInt[10000 * mm + 10790]]

\* What the roundings of the floats can add up to, in units of 2^-53: one for
\* each of the two literals, the m - 1 additions of the sum and the five other
\* operations, and two to spare.
Roundings(mm) ==
    mm + 8

\* C8: count() returns the integer part of alpha_m * m^2 / Z, with
\* Z = sum of 2^-r over the registers and alpha_m = 0.7213 / (1 + 1.079 / m), as
\* binary64 arithmetic gives it: the result c has c <= E * (1 + e) and
\* c + 1 > E * (1 - e) for the exact E and e = Roundings * 2^-53, in every state,
\* with no other formula for small or large estimates.
C8_EstimationFormula ==
    (status = "ok" /\ call.op = "count") =>
        /\ result.kind = "int"
        /\ BigLeq[BigShl[BigMul[ExactDen(registers, m), result.val], 53],
                  BigMul[ExactNum(m), BigAdd[BigShl[<<1>>, 53], <<Roundings(m)>>]]]
        /\ ~BigLeq[BigShl[BigMul[ExactDen(registers, m), BigAdd[result.val, <<1>>]], 53],
                   BigMul[ExactNum(m), BigSub[BigShl[<<1>>, 53], <<Roundings(m)>>]]]

\* count() was called with registers at 0 beside registers above 0, where an
\* estimator with a small-range correction would count the registers at 0.
C8_Witness ==
    /\ call.op = "count"
    /\ result.kind = "int"
    /\ result.val # <<>>
    /\ \E i, j \in DOMAIN registers : registers[i] = 0 /\ registers[j] > 1

\* C9: every register is an integer in 0..96, Z is above 0 (and is m exactly
\* when every register is 0), and count() returns a non-negative integer, never
\* a division by zero.
C9_RegistersInRange ==
    status = "ok" =>
        /\ \A i \in DOMAIN registers : registers[i] \in 0..96
        /\ Z(registers, m).m # <<>>
        /\ (Z(registers, m) = FloatFromInt[m]) <=> (\A i \in DOMAIN registers : registers[i] = 0)
        /\ CountResult(registers, m).kind = "int"
        /\ CountResult(registers, m).val \in Limbs

\* count() was called with a register at 96, the highest rank there is, and an
\* item of rank 0 among the items.
C9_Witness ==
    /\ call.op = "count"
    /\ \E i \in DOMAIN registers : registers[i] = 96
    /\ \E x \in added : _rho(w(x)) = 0

\* The registers of a new estimator.
Fresh ==
    [i \in DOMAIN registers |-> 0]

\* C10: count() after add(item) is at least count() before it, and at least
\* count() of the new estimator.
C10_CountMonotonic ==
    [][IsAdd =>
          /\ BigLeq[CountResult(registers, m).val, CountResult(registers', m).val]
          /\ BigLeq[CountResult(Fresh, m).val, CountResult(registers', m).val]]_vars

\* count() was called after adds and returned more than the new estimator's.
C10_Witness ==
    /\ call.op = "count"
    /\ added # {}
    /\ result.kind = "int"
    /\ ~BigLeq[result.val, CountResult(Fresh, m).val]

====
